---- MODULE Spec2Model ----
(***************************************************************************)
(* A model of clflops (src/clflops.cpp): an OpenCL benchmarking tool.      *)
(*                                                                         *)
(* Spec        the whole program: platform enumeration, getopt loop,       *)
(*             device listing, index validation, kernel file, and the      *)
(*             per-device benchmarking pass of run_vector_ops.             *)
(* SpecParse   set_memory_test_size applied to every short size string.    *)
(* SpecVerify  verify_data applied to short readback sequences.            *)
(*                                                                         *)
(* Byte counts exceed 2^31, so they are kept as two-limb numbers           *)
(* [hi, lo] standing for hi * 10^6 + lo.  Floating-point values are kept   *)
(* on a decimal grid: readback elements in units of 10^-3, generator draws *)
(* and squares in units of 10^-6.                                          *)
(***************************************************************************)
EXTENDS Integers, Sequences, FiniteSets, TLC

\* ------------------------------------------------------------------ bounds
MaxPlatforms == 2
MaxDevPerPlatform == 2
MaxOpts == 2
MaxIndex == 3
MaxLen == 3
MaxSample == 2

\* ------------------------------------------------------- program constants
\* sizeof(float)
SizeofFloat == 4
\* data.size() / 100 elements are read back for verification
VerifyFraction == 100
\* unsigned long memory_test_size = 512E6, in units of 10^6
DefaultTestSizeM == 512
\* exit status of a process killed by SIGSEGV (128 + 11), as a shell reports it
CrashStatus == 128 + 11

\* --------------------------------------------------------- two-limb numbers
Limb == 1000000

Big(h, l) == [hi |-> h, lo |-> l]

BigOfInt(n) == Big(n \div Limb, n % Limb)

BigLE(a, b) == a.hi < b.hi \/ (a.hi = b.hi /\ a.lo <= b.lo)

\* a - b, for a >= b
BigSub(a, b) ==
    IF a.lo >= b.lo THEN Big(a.hi - b.hi, a.lo - b.lo)
    ELSE Big(a.hi - b.hi - 1, a.lo + Limb - b.lo)

\* a * k for a small k (k <= 2000 keeps every limb product below 2^31)
BigMulSmall(a, k) ==
    Big(a.hi * k + ((a.lo * k) \div Limb), (a.lo * k) % Limb)

\* a \div k for a small k
BigDivSmall(a, k) ==
    Big(a.hi \div k, (((a.hi % k) * Limb) + a.lo) \div k)

\* a * 10^6
BigMulLimb(a) == Big(a.hi * Limb + a.lo, 0)

\* 2^32 and 2^31 - 1
TwoTo32 == Big(4294, 967296)
IntMax == Big(2147, 483647)

RECURSIVE BigMod32(_)
BigMod32(a) == IF BigLE(TwoTo32, a) THEN BigMod32(BigSub(a, TwoTo32)) ELSE a

\* Conversion of a size_t to a 32-bit signed int: the value modulo 2^32, read
\* as two's complement.  The result is a sign and a magnitude.
ToInt(a) ==
    LET m == BigMod32(a)
    IN IF BigLE(m, IntMax) THEN [neg |-> FALSE, mag |-> m]
       ELSE [neg |-> TRUE, mag |-> BigSub(TwoTo32, m)]

\* ------------------------------------------------- stream extraction (>>)
Digits == {"0", "1", "2", "3", "4", "5", "6", "7", "8", "9"}

DigitVal(c) ==
    CASE c = "0" -> 0 [] c = "1" -> 1 [] c = "2" -> 2 [] c = "3" -> 3
      [] c = "4" -> 4 [] c = "5" -> 5 [] c = "6" -> 6 [] c = "7" -> 7
      [] c = "8" -> 8 [] c = "9" -> 9

IsSpace(c) == c = " "

\* position of the first character at or after p that is not white space
\* (Len(s) + 1 when there is none)
RECURSIVE SkipWs(_, _)
SkipWs(s, p) ==
    IF p <= Len(s) /\ IsSpace(s[p]) THEN SkipWs(s, p + 1) ELSE p

\* position just past the run of digits starting at p
RECURSIVE DigitsEnd(_, _)
DigitsEnd(s, p) ==
    IF p <= Len(s) /\ s[p] \in Digits THEN DigitsEnd(s, p + 1) ELSE p

\* value of the digits s[p .. q-1]
RECURSIVE DigitsValue(_, _, _)
DigitsValue(s, p, q) ==
    IF p >= q THEN 0 ELSE DigitsValue(s, p, q - 1) * 10 + DigitVal(s[q - 1])

\* position just past the run of non-space characters starting at p
RECURSIVE TokenEnd(_, _)
TokenEnd(s, p) ==
    IF p <= Len(s) /\ ~IsSpace(s[p]) THEN TokenEnd(s, p + 1) ELSE p

\* ss >> memory_test_size : skips white space, reads decimal digits.  With no
\* digit the extraction fails: the value is set to 0 and failbit is set.
\* Reading up to the end of the string sets eofbit.
ExtractULong(s) ==
    LET p == SkipWs(s, 1)
        q == DigitsEnd(s, p)
    IN IF q = p THEN [value |-> 0, pos |-> p, good |-> FALSE]
       ELSE [value |-> DigitsValue(s, p, q), pos |-> q, good |-> q <= Len(s)]

\* ss >> prefix : on a stream that is not good() nothing is read; otherwise
\* white space is skipped and the next white-space delimited word is read.
ExtractWord(s, st) ==
    IF ~st.good THEN <<>>
    ELSE LET p == SkipWs(s, st.pos)
         IN SubSeq(s, p, TokenEnd(s, p) - 1)

set_memory_test_size_upper_only(size) ==
    LET st == ExtractULong(size)
        prefix == ExtractWord(size, st)
        n == BigOfInt(st.value)
    IN IF prefix = <<"M">>
         THEN [exit |-> FALSE, size |-> BigMulLimb(n), prefix |-> prefix]
       ELSE IF prefix = <<"G">>
         THEN [exit |-> FALSE, size |-> BigMulSmall(BigMulLimb(n), 1000),
               prefix |-> prefix]
       ELSE IF Len(prefix) > 0
         THEN [exit |-> TRUE, size |-> n, prefix |-> prefix]
       ELSE [exit |-> FALSE, size |-> n, prefix |-> prefix]

\* void set_memory_test_size(const string& size, long unsigned& memory_test_size)
\* The result is the new memory_test_size and whether exit(1) was called.
\* memory_test_size *= 1E6 is a double multiplication converted back to
\* unsigned long; it is exact while the product is below 2^53.
set_memory_test_size(size) ==
    LET st == ExtractULong(size)
        prefix == ExtractWord(size, st)
        n == BigOfInt(st.value)
    IN IF prefix = <<"M">> \/ prefix = <<"m">>
         THEN [exit |-> FALSE, size |-> BigMulLimb(n), prefix |-> prefix]
       ELSE IF prefix = <<"G">> \/ prefix = <<"g">>
         THEN [exit |-> FALSE, size |-> BigMulSmall(BigMulLimb(n), 1000),
               prefix |-> prefix]
       ELSE IF Len(prefix) > 0
         THEN [exit |-> TRUE, size |-> n, prefix |-> prefix]
       ELSE [exit |-> FALSE, size |-> n, prefix |-> prefix]

\* ------------------------------------------------------------ verification
\* the fixed tolerance 1.0E-6, in units of 10^-6
Tolerance == 1

Abs(x) == IF x < 0 THEN -x ELSE x

\* bool verify_data(T& data, min = 0, max = 1)
\* data holds the readback elements (units of 10^-3); draws holds what
\* dist(gen) yields, in order, from a freshly constructed default engine
\* (units of 10^-6).  elem * elem is then in units of 10^-6 as well.
RECURSIVE verify_loop(_, _, _)
verify_loop(data, draws, i) ==
    IF i > Len(data) THEN TRUE
    ELSE IF Abs(data[i] * data[i] - draws[i]) > Tolerance THEN FALSE
    ELSE verify_loop(data, draws, i + 1)

verify_data_first_only(data, draws) ==
    data = <<>> \/ Abs(data[1] * data[1] - draws[1]) <= Tolerance

verify_data(data, draws) == verify_loop(data, draws, 1)

\* ------------------------------------------------------------------ output
Line(stream, kind, a, b) == [s |-> stream, k |-> kind, a |-> a, b |-> b]

\* ----------------------------------------------------------- device listing
\* devices of main(): the platform (1-based) of every device, in the order
\* the per-platform device lists are concatenated
RECURSIVE Enumerate(_, _)
Enumerate(pd, p) ==
    IF p > Len(pd) THEN <<>>
    ELSE [j \in 1..pd[p] |-> p] \o Enumerate(pd, p + 1)

\* void list_devices(vector<cl::Platform>& platforms, vector<cl::Device>& devices)
\* np is platforms.size(), devs the platform of each device.  it is the
\* platform iterator (1-based; np + 1 is platforms.end()), id the platform of
\* the previous device (0 before the first).  A platform's vendor and name are
\* both stood for by the platform's number.
\*   cout << it++->getInfo<VENDOR>() << " " << it->getInfo<NAME>() << ":"
\* reads the name through it either before the increment (order "name_first",
\* allowed before C++17) or after it (order "vendor_first", required since
\* C++17).  Reading through platforms.end() is undefined: the outcome ub is
\* either a crash or a name that belongs to no platform (0).
RECURSIVE list_loop(_, _, _, _, _, _, _)
list_loop(np, devs, order, ub, i, it, id) ==
    IF i > Len(devs) THEN [lines |-> <<>>, crashed |-> FALSE]
    ELSE
      LET cur == devs[i]
          boundary == cur # id
          nameAt == IF order = "name_first" THEN it ELSE it + 1
          pastEnd == boundary /\ nameAt > np
          header == Line("cout", "header", it, IF nameAt > np THEN 0 ELSE nameAt)
          device == Line("cout", "device", i - 1, cur)
          rest == list_loop(np, devs, order, ub, i + 1,
                            IF boundary THEN it + 1 ELSE it, cur)
      IN IF pastEnd /\ ub = "crash" THEN [lines |-> <<>>, crashed |-> TRUE]
         ELSE [lines |-> (IF boundary THEN <<header>> ELSE <<>>) \o <<device>>
                          \o rest.lines,
               crashed |-> rest.crashed]

list_devices(np, devs, order, ub) == list_loop(np, devs, order, ub, 1, 1, 0)

\* ---------------------------------------------------------- model inputs
\* the platforms the runtime reports: the number of devices of each
PlatformConfigs ==
    UNION {[1..n -> 0..MaxDevPerPlatform] : n \in 0..MaxPlatforms}

\* arguments given to -s in runs of the whole program
SizeArgs == {<<"1">>, <<"1", "0", "0", "M">>, <<"9", "G">>, <<"1", "X">>}

\* characters of the size strings given to set_memory_test_size on its own
Alphabet == {"0", "1", "2", "M", "m", "G", "g", "X", " "}

SizeStrings == UNION {[1..n -> Alphabet] : n \in 0..MaxLen}

\* readback elements (units of 10^-3) and generator draws (units of 10^-6)
ElemVals == {0, 500, 900}
DrawVals == {0, 250000, 250003, 500000, 810000}

VerifyInputs ==
    UNION {[data : [1..n -> ElemVals], draws : [1..n -> DrawVals]] :
           n \in 0..MaxSample}

\* In runs of the whole program a readback is stood for by its first
\* MaxSample elements; the device returns the square root or a wrong value.
SampleLen(count) ==
    IF count.hi > 0 \/ count.lo >= MaxSample THEN MaxSample ELSE count.lo

RunDraws(n) == [i \in 1..n |-> 250000]
RunReadbacks(n) == [1..n -> {500, 900}]

\* ------------------------------------------------------------------- state
VARIABLES
    platDevs,           \* devices per platform, as the runtime reports them
    devices,            \* main: devices (the platform of each device)
    pc,                 \* position in main / run_vector_ops
    exit_status,        \* -1 while running, else the process's exit status
    list_devices_flag,  \* main: list_devices_flag
    memory_test_size,   \* main: memory_test_size
    device_index_set,   \* main: device_index_set
    device_index,       \* main: device_index
    optcount,           \* options getopt has returned so far
    n_l,                \* how many of them were -l
    file_opened,        \* whether vectorops.cl has been opened
    data_size,          \* main: data.size()
    started,            \* devices run_vector_ops was entered for, in order
    finished,           \* how many calls of run_vector_ops have returned
    pass,               \* the current (or last) call of run_vector_ops
    listing,            \* lines written by list_devices
    diag,               \* lines written on the fatal paths of main
    pass_out,           \* lines written by the current call of run_vector_ops
    printed,            \* every <<stream, kind>> written so far
    fn_in,              \* SpecParse, SpecVerify: the function's input
    fn_out              \* SpecVerify: <<result>> once the function was applied

vars == <<platDevs, devices, pc, exit_status, list_devices_flag,
          memory_test_size, device_index_set, device_index, optcount, n_l,
          file_opened, data_size, started, finished, pass, listing, diag,
          pass_out, printed, fn_in, fn_out>>

NoPass == [dev |-> -1, built |-> FALSE, buffer |-> FALSE, buff_bytes |-> Big(0, 0),
           range |-> "none", range_arg |-> [neg |-> FALSE, mag |-> Big(0, 0)],
           element |-> "none", returned |-> FALSE]

Kinds(lines) == {<<lines[i].s, lines[i].k>> : i \in 1..Len(lines)}

\* the state of main() on entry, before cl::Platform::get
MainInit ==
    /\ devices = <<>>
    /\ pc = "start"
    /\ exit_status = -1
    /\ list_devices_flag = FALSE
    /\ memory_test_size = Big(DefaultTestSizeM, 0)
    /\ device_index_set = FALSE
    /\ device_index = 0
    /\ optcount = 0
    /\ n_l = 0
    /\ file_opened = FALSE
    /\ data_size = Big(0, 0)
    /\ started = <<>>
    /\ finished = 0
    /\ pass = NoPass
    /\ listing = <<>>
    /\ diag = <<>>
    /\ pass_out = <<>>
    /\ printed = {}

Init ==
    /\ platDevs \in PlatformConfigs
    /\ MainInit
    /\ fn_in = <<>>
    /\ fn_out = <<>>

\* exit(status) after writing the diagnostic lines
Fatal(lines, status) ==
    /\ diag' = diag \o lines
    /\ printed' = printed \cup Kinds(lines)
    /\ pc' = "exited"
    /\ exit_status' = status

\* ------------------------------------------------------------------- main
\* cl::Platform::get found no platform: diagnostic, exit(1)
NoPlatforms ==
    /\ pc = "start"
    /\ Len(platDevs) = 0
    /\ Fatal(<<Line("cerr", "no_platforms", 0, 0)>>, 1)
    /\ UNCHANGED <<platDevs, devices, list_devices_flag, memory_test_size,
                   device_index_set, device_index, optcount, n_l, file_opened,
                   data_size, started, finished, pass, listing, pass_out,
                   fn_in, fn_out>>

\* the devices of every platform, concatenated in platform order
EnumerateDevices ==
    /\ pc = "start"
    /\ Len(platDevs) > 0
    /\ devices' = Enumerate(platDevs, 1)
    /\ pc' = "getopt"
    /\ UNCHANGED <<platDevs, exit_status, list_devices_flag, memory_test_size,
                   device_index_set, device_index, optcount, n_l, file_opened,
                   data_size, started, finished, pass, listing, diag, pass_out,
                   printed, fn_in, fn_out>>

\* getopt returned 'l'
OptList ==
    /\ pc = "getopt"
    /\ optcount < MaxOpts
    /\ optcount' = optcount + 1
    /\ n_l' = n_l + 1
    /\ IF list_devices_flag
         THEN UNCHANGED <<list_devices_flag, listing, printed, pc, exit_status>>
         ELSE \E order \in {"name_first", "vendor_first"}, ub \in {"crash", "garbage"} :
                LET r == list_devices(Len(platDevs), devices, order, ub)
                IN /\ list_devices_flag' = TRUE
                   /\ listing' = listing \o r.lines
                   /\ printed' = printed \cup Kinds(r.lines)
                   /\ pc' = IF r.crashed THEN "exited" ELSE pc
                   /\ exit_status' = IF r.crashed THEN CrashStatus ELSE exit_status
    /\ UNCHANGED <<platDevs, devices, memory_test_size, device_index_set,
                   device_index, file_opened, data_size, started, finished,
                   pass, diag, pass_out, fn_in, fn_out>>

\* getopt returned 's' with optarg = size
OptSizeWith(size) ==
    /\ pc = "getopt"
    /\ optcount < MaxOpts
    /\ optcount' = optcount + 1
    /\ LET r == set_memory_test_size(size)
       IN IF r.exit
            THEN /\ Fatal(<<Line("cerr", "bad_prefix", r.prefix, 0)>>, 1)
                 /\ memory_test_size' = r.size
            ELSE /\ memory_test_size' = r.size
                 /\ UNCHANGED <<diag, printed, pc, exit_status>>
    /\ UNCHANGED <<platDevs, devices, list_devices_flag, device_index_set,
                   device_index, n_l, file_opened, data_size, started, finished,
                   pass, listing, pass_out, fn_in, fn_out>>

OptSize == \E size \in SizeArgs : OptSizeWith(size)

\* getopt returned '?' (unknown option) or ':' (missing argument)
OptUnexpected ==
    /\ pc = "getopt"
    /\ optcount < MaxOpts
    /\ optcount' = optcount + 1
    /\ Fatal(<<Line("cerr", "unexpected_option", 0, 0)>>, 1)
    /\ UNCHANGED <<platDevs, devices, list_devices_flag, memory_test_size,
                   device_index_set, device_index, n_l, file_opened, data_size,
                   started, finished, pass, listing, pass_out, fn_in, fn_out>>

\* getopt returned -1; if (list_devices_flag) exit(0)
OptEnd ==
    /\ pc = "getopt"
    /\ IF list_devices_flag
         THEN /\ pc' = "exited"
              /\ exit_status' = 0
         ELSE /\ pc' = "positional"
              /\ UNCHANGED exit_status
    /\ UNCHANGED <<platDevs, devices, list_devices_flag, memory_test_size,
                   device_index_set, device_index, optcount, n_l, file_opened,
                   data_size, started, finished, pass, listing, diag, pass_out,
                   printed, fn_in, fn_out>>

\* optind = argc: no positional argument
NoPositional ==
    /\ pc = "positional"
    /\ pc' = "open"
    /\ UNCHANGED <<platDevs, devices, exit_status, list_devices_flag,
                   memory_test_size, device_index_set, device_index, optcount,
                   n_l, file_opened, data_size, started, finished, pass,
                   listing, diag, pass_out, printed, fn_in, fn_out>>

\* if (device_index >= devices.size())
IndexRejected_off_by_one(i) == i > Len(devices)

IndexRejected(i) == i >= Len(devices)

\* the decimal string of i, as a positional argument holds it
DigitChar(d) ==
    CASE d = 0 -> "0" [] d = 1 -> "1" [] d = 2 -> "2" [] d = 3 -> "3"
      [] d = 4 -> "4" [] d = 5 -> "5" [] d = 6 -> "6" [] d = 7 -> "7"
      [] d = 8 -> "8" [] d = 9 -> "9"

RECURSIVE IndexString(_)
IndexString(i) ==
    IF i < 10 THEN <<DigitChar(i)>>
    ELSE Append(IndexString(i \div 10), DigitChar(i % 10))

PositionalArgs == {IndexString(i) : i \in 0..MaxIndex}

\* optind < argc: stringstream(argv[optind]) >> device_index
PositionalIndex(arg) ==
    /\ pc = "positional"
    /\ device_index_set' = TRUE
    /\ device_index' = ExtractULong(arg).value
    /\ IF IndexRejected(device_index')
         THEN Fatal(<<Line("cerr", "no_device", device_index', 0)>>, 1)
         ELSE /\ pc' = "open"
              /\ UNCHANGED <<diag, printed, exit_status>>
    /\ UNCHANGED <<platDevs, devices, list_devices_flag, memory_test_size,
                   optcount, n_l, file_opened, data_size, started, finished,
                   pass, listing, pass_out, fn_in, fn_out>>

Positional == \E arg \in PositionalArgs : PositionalIndex(arg)

\* ifstream source_file(CL_FILE_NAME); then initialize_data
OpenKernelFile ==
    /\ pc = "open"
    /\ \E is_open \in BOOLEAN :
         IF ~is_open
           THEN /\ Fatal(<<Line("cerr", "open_error", 0, 0)>>, 1)
                /\ UNCHANGED <<file_opened, data_size>>
           ELSE /\ file_opened' = TRUE
                /\ data_size' = BigDivSmall(memory_test_size, SizeofFloat)
                /\ pc' = "dispatch"
                /\ UNCHANGED <<diag, printed, exit_status>>
    /\ UNCHANGED <<platDevs, devices, list_devices_flag, memory_test_size,
                   device_index_set, device_index, optcount, n_l, started,
                   finished, pass, listing, pass_out, fn_in, fn_out>>

\* the device the next call of run_vector_ops is for, or -1 when none is left
NextDevice_stops_early ==
    IF device_index_set
      THEN IF started = <<>> THEN device_index ELSE -1
      ELSE IF Len(started) < Len(devices) - 1 THEN Len(started) ELSE -1

NextDevice ==
    IF device_index_set
      THEN IF started = <<>> THEN device_index ELSE -1
      ELSE IF Len(started) < Len(devices) THEN Len(started) ELSE -1

\* ---------------------------------------------------------- run_vector_ops
PassWrite(lines) ==
    /\ pass_out' = pass_out \o lines
    /\ printed' = printed \cup Kinds(lines)

\* if (program.build({device}) != CL_SUCCESS) { ...; exit(1); }
\* where control is and the exit status after a failed build
OnBuildFailure_next_device == [pc |-> "dispatch", exit_status |-> -1]

OnBuildFailure == [pc |-> "exited", exit_status |-> 1]

\* entry of run_vector_ops for the next device: device name, context,
\* program.build; a failed build writes the message and the log and exit(1)
RunEnter ==
    /\ pc = "dispatch"
    /\ NextDevice # -1
    /\ LET d == NextDevice
       IN /\ started' = Append(started, d)
          /\ \E build_ok \in BOOLEAN :
               IF build_ok
                 THEN /\ pass' = [NoPass EXCEPT !.dev = d, !.built = TRUE]
                      /\ pass_out' = <<Line("cout", "device_name", d, 0)>>
                      /\ printed' = printed \cup {<<"cout", "device_name">>}
                      /\ pc' = "range"
                      /\ UNCHANGED exit_status
                 ELSE /\ pass' = [NoPass EXCEPT !.dev = d]
                      /\ pass_out' = <<Line("cout", "device_name", d, 0),
                                       Line("cerr", "build_error", d, 0),
                                       Line("cout", "build_log", d, 0)>>
                      /\ printed' = printed \cup {<<"cout", "device_name">>,
                                                  <<"cerr", "build_error">>,
                                                  <<"cout", "build_log">>}
                      /\ pc' = OnBuildFailure.pc
                      /\ exit_status' = OnBuildFailure.exit_status
    /\ UNCHANGED <<platDevs, devices, list_devices_flag, memory_test_size,
                   device_index_set, device_index, optcount, n_l, file_opened,
                   data_size, finished, listing, diag, fn_in, fn_out>>

\* the readback of data.size() / 100 elements and its verification
Verified(ok) ==
    LET n == SampleLen(BigDivSmall(data_size, VerifyFraction))
    IN \E rb \in RunReadbacks(n) : ok = verify_data(rb, RunDraws(n))

\* where run_vector_ops goes on after verifying a variant's readback: a
\* failed verification returns, as does the end of the element variant
AfterVerify_next_variant(variant, ok) ==
    IF variant = "range" THEN "element" ELSE "dispatch"

AfterVerify(variant, ok) ==
    IF variant = "range" /\ ok THEN "element" ELSE "dispatch"

\* buffer, upload, the range_op kernel, readback, verification; a failed
\* verification writes the diagnostic and returns
RunRange ==
    /\ pc = "range"
    /\ \E ok \in BOOLEAN :
         /\ Verified(ok)
         /\ pass' = [pass EXCEPT
                       !.buffer = TRUE,
                       !.buff_bytes = BigMulSmall(data_size, SizeofFloat),
                       !.range_arg = ToInt(data_size),
                       !.range = IF ok THEN "ok" ELSE "failed",
                       !.returned = AfterVerify("range", ok) = "dispatch"]
         /\ IF ok
              THEN PassWrite(<<Line("cout", "label", "range", 0),
                               Line("cout", "throughput", "range", 0)>>)
              ELSE PassWrite(<<Line("cout", "label", "range", 0),
                               Line("cerr", "invalid", "range", 0)>>)
         /\ pc' = AfterVerify("range", ok)
         /\ finished' = IF AfterVerify("range", ok) = "dispatch"
                          THEN finished + 1 ELSE finished
    /\ UNCHANGED <<platDevs, devices, exit_status, list_devices_flag,
                   memory_test_size, device_index_set, device_index, optcount,
                   n_l, file_opened, data_size, started, listing, diag, fn_in,
                   fn_out>>

\* re-upload, the element_op kernel, readback, verification, blank line
RunElement ==
    /\ pc = "element"
    /\ \E ok \in BOOLEAN :
         /\ Verified(ok)
         /\ pass' = [pass EXCEPT
                       !.element = IF ok THEN "ok" ELSE "failed",
                       !.returned = TRUE]
         /\ IF ok
              THEN PassWrite(<<Line("cout", "label", "element", 0),
                               Line("cout", "throughput", "element", 0),
                               Line("cout", "blank", 0, 0)>>)
              ELSE PassWrite(<<Line("cout", "label", "element", 0),
                               Line("cerr", "invalid", "element", 0)>>)
         /\ pc' = AfterVerify("element", ok)
    /\ finished' = finished + 1
    /\ UNCHANGED <<platDevs, devices, exit_status, list_devices_flag,
                   memory_test_size, device_index_set, device_index, optcount,
                   n_l, file_opened, data_size, started, listing, diag, fn_in,
                   fn_out>>

\* return 0 from main
Return0 ==
    /\ pc = "dispatch"
    /\ NextDevice = -1
    /\ pc' = "exited"
    /\ exit_status' = 0
    /\ UNCHANGED <<platDevs, devices, list_devices_flag, memory_test_size,
                   device_index_set, device_index, optcount, n_l, file_opened,
                   data_size, started, finished, pass, listing, diag, pass_out,
                   printed, fn_in, fn_out>>

Next ==
    \/ NoPlatforms
    \/ EnumerateDevices
    \/ OptList
    \/ OptSize
    \/ OptUnexpected
    \/ OptEnd
    \/ NoPositional
    \/ Positional
    \/ OpenKernelFile
    \/ RunEnter
    \/ RunRange
    \/ RunElement
    \/ Return0

Spec == Init /\ [][Next]_vars

\* ---------------------------------------- set_memory_test_size on its own
\* main has enumerated one device and getopt returns 's' with optarg = fn_in
InitParse ==
    /\ platDevs = <<1>>
    /\ MainInit
    /\ fn_in \in SizeStrings
    /\ fn_out = <<>>

ParseApply ==
    /\ optcount = 0
    /\ OptSizeWith(fn_in)

NextParse ==
    \/ EnumerateDevices
    \/ ParseApply

SpecParse == InitParse /\ [][NextParse]_vars

\* ------------------------------------------------- verify_data on its own
InitVerify ==
    /\ platDevs = <<1>>
    /\ MainInit
    /\ fn_in \in VerifyInputs
    /\ fn_out = <<>>

VerifyApply ==
    /\ fn_out = <<>>
    /\ fn_out' = <<verify_data(fn_in.data, fn_in.draws)>>
    /\ UNCHANGED <<platDevs, devices, pc, exit_status, list_devices_flag,
                   memory_test_size, device_index_set, device_index, optcount,
                   n_l, file_opened, data_size, started, finished, pass,
                   listing, diag, pass_out, printed, fn_in>>

NextVerify == VerifyApply

SpecVerify == InitVerify /\ [][NextVerify]_vars

\* ================================================================= claims
Exited == pc = "exited"

HasLine(lines, stream, kind, a) ==
    \E i \in 1..Len(lines) :
        lines[i].s = stream /\ lines[i].k = kind /\ lines[i].a = a

HasKind(lines, kind, a) ==
    \E i \in 1..Len(lines) : lines[i].k = kind /\ lines[i].a = a

\* The listing the specification describes: for every platform that has
\* devices, a header with that platform's vendor and name, then one line per
\* device, numbered from `first` on.
RECURSIVE ExpectedListing(_, _, _)
ExpectedListing(pd, p, first) ==
    IF p > Len(pd) THEN <<>>
    ELSE (IF pd[p] = 0 THEN <<>>
          ELSE <<Line("cout", "header", p, p)>>
               \o [j \in 1..pd[p] |-> Line("cout", "device", first + j - 1, p)])
         \o ExpectedListing(pd, p + 1, first + pd[p])

\* C1: when -l is among the options (and option parsing itself raises no
\* fatal error), the process ends with the device list printed exactly once,
\* no device benchmarked, the kernel file never opened, and exit status 0.
C1_ListingExitsZero ==
    (Exited /\ n_l > 0 /\ diag = <<>>) =>
        /\ exit_status = 0
        /\ Len(SelectSeq(listing, LAMBDA l : l.k = "device")) = Len(devices)
        /\ started = <<>>
        /\ ~file_opened

\* C5: once list_devices has run, its output is one header per platform
\* group, carrying the vendor and name of the platform the following devices
\* belong to, then one line [i] per device with contiguous indices; the
\* platform iterator is never read at or past the end of the platform list.
C5_ListingWellFormed ==
    list_devices_flag =>
        /\ exit_status # CrashStatus
        /\ listing = ExpectedListing(platDevs, 1, 0)

\* C7: every diagnostic is written to the error stream and every normal
\* result to standard output.
DiagnosticKinds == {"no_platforms", "bad_prefix", "unexpected_option",
                    "no_device", "open_error", "build_error", "build_log",
                    "invalid"}

C7_DiagnosticsOnErrorStream ==
    \A w \in printed :
        IF w[2] \in DiagnosticKinds THEN w[1] = "cerr" ELSE w[1] = "cout"

\* C10: the element count given to range_op equals data.size() =
\* memory_test_size / 4 (the conversion to int changes nothing), and the
\* device buffer holds 4 times that many bytes.
C10_RangeArgIsDataSize ==
    pass.buffer =>
        /\ pass.range_arg = [neg |-> FALSE,
                             mag |-> BigDivSmall(memory_test_size, SizeofFloat)]
        /\ data_size = BigDivSmall(memory_test_size, SizeofFloat)
        /\ pass.buff_bytes = BigMulSmall(data_size, SizeofFloat)

\* C2, as stated: after a failed verification the failure is reported, that
\* variant's throughput is withheld, the next variant still runs on the same
\* device (element after a failed range), and the process is not aborted.
C2_NextVariantStillRuns ==
    (pass.range = "failed" /\ pc = "dispatch") =>
        /\ HasLine(pass_out, "cerr", "invalid", "range")
        /\ ~HasKind(pass_out, "throughput", "range")
        /\ pass.element # "none"

\* C2, amended: after a failed verification the failure is reported on the
\* error stream, that variant's throughput is withheld, run_vector_ops
\* returns without running the remaining variant, and execution goes on with
\* the next device if there is one; the process is not aborted (it can only
\* end with status 0 while this pass is the last one).
C2_FailedVariantEndsPass ==
    /\ pass.range = "failed" =>
          /\ HasLine(pass_out, "cerr", "invalid", "range")
          /\ ~HasKind(pass_out, "throughput", "range")
          /\ pass.element = "none"
          /\ ~HasKind(pass_out, "label", "element")
          /\ pass.returned
    /\ pass.element = "failed" =>
          /\ HasLine(pass_out, "cerr", "invalid", "element")
          /\ ~HasKind(pass_out, "throughput", "element")
          /\ HasKind(pass_out, "throughput", "range")
          /\ pass.returned
    /\ ("failed" \in {pass.range, pass.element}) =>
          /\ finished = Len(started)
          /\ pc \in {"dispatch", "exited"}
          /\ pc = "dispatch" => (NextDevice # -1 => ENABLED RunEnter)
          /\ pc = "exited" => (exit_status = 0 /\ NextDevice = -1)

C2_Witness ==
    /\ pass.range = "failed"
    /\ pass.dev = 0
    /\ Len(devices) = 2
    /\ pc = "dispatch"
    /\ NextDevice = 1

\* C3: with a positional device index i and a device list of size k: if
\* i <= k - 1 the index is not rejected, run_vector_ops is entered for device
\* i and for no other device, and a run that ends with status 0 has
\* benchmarked exactly device i; if i >= k the process exits with status 1
\* and a diagnostic naming i, before the kernel file is opened and before
\* any device is benchmarked.
C3_IndexSelection ==
    device_index_set =>
        IF device_index <= Len(devices) - 1
          THEN /\ ~HasKind(diag, "no_device", device_index)
               /\ started \in {<<>>, <<device_index>>}
               /\ pc \in {"dispatch", "range", "element"} => file_opened
               /\ (Exited /\ exit_status = 0) =>
                      (started = <<device_index>> /\ finished = 1)
          ELSE /\ Exited
               /\ exit_status = 1
               /\ diag = <<Line("cerr", "no_device", device_index, 0)>>
               /\ ~file_opened
               /\ started = <<>>

C3_Witness ==
    /\ device_index_set
    /\ device_index = 1
    /\ Len(devices) = 2
    /\ started = <<1>>
    /\ Exited
    /\ exit_status = 0

\* C6: with no listing flag and no positional index the devices are
\* benchmarked one at a time in increasing index order: the devices entered
\* so far are 0, 1, ..., each at most once, and the pass of a device has
\* returned before the next one is entered; unless a fatal condition ended
\* the process (missing kernel file, failed build), it ends with status 0
\* after every enumerated device has been benchmarked exactly once.
C6_AllDevicesInOrder ==
    (~device_index_set /\ ~list_devices_flag) =>
        /\ started = [j \in 1..Len(started) |-> j - 1]
        /\ Len(started) <= Len(devices)
        /\ finished \in {Len(started), Len(started) - 1}
        /\ finished = Len(started) - 1 =>
              (pc \in {"range", "element"} \/ (Exited /\ ~pass.built))
        /\ (Exited /\ file_opened /\ (started = <<>> \/ pass.built)) =>
              /\ exit_status = 0
              /\ Len(started) = Len(devices)
              /\ finished = Len(devices)

C6_Witness ==
    /\ ~device_index_set
    /\ Exited
    /\ exit_status = 0
    /\ Len(devices) = 3
    /\ started = <<0, 1, 2>>
    /\ finished = 3

\* C8: if the build fails for a device, the build log is printed and the
\* process ends with status 1 at that point: no buffer is allocated and no
\* kernel launched on that device, no later device is benchmarked, and every
\* device before it has completed its pass.
C8_BuildFailureIsFatal ==
    (pass.dev # -1 /\ ~pass.built) =>
        /\ Exited
        /\ exit_status = 1
        /\ HasKind(pass_out, "build_log", pass.dev)
        /\ HasLine(pass_out, "cerr", "build_error", pass.dev)
        /\ ~pass.buffer
        /\ pass.range = "none"
        /\ pass.element = "none"
        /\ started[Len(started)] = pass.dev
        /\ finished = Len(started) - 1
        /\ ~device_index_set => started = [j \in 1..(pass.dev + 1) |-> j - 1]

C8_Witness ==
    /\ pass.dev = 1
    /\ ~pass.built
    /\ ~device_index_set
    /\ Len(devices) = 3
    /\ finished = 1
    /\ Exited

\* ------------------------------------------------------------ size strings
RECURSIVE Pow10(_)
Pow10(e) == IF e = 0 THEN 1 ELSE 10 * Pow10(e - 1)

\* the number the decimal digits s[a .. b] denote
RECURSIVE Decimal(_, _, _)
Decimal(s, a, b) ==
    IF a > b THEN 0 ELSE DigitVal(s[a]) * Pow10(b - a) + Decimal(s, a + 1, b)

\* s starts with an integer: its digits are s[1 .. b]
IntegerEndsAt(s, b) ==
    /\ b \in 1..Len(s)
    /\ \A i \in 1..b : s[i] \in Digits
    /\ b < Len(s) => s[b + 1] \notin Digits

Parsed == pc # "start" /\ optcount = 1

Accepted(bytes) == ~Exited /\ exit_status = -1 /\ memory_test_size = bytes

Rejected == Exited /\ exit_status = 1 /\ started = <<>> /\ ~file_opened

SuffixRule(n, suffix) ==
    IF suffix = <<>> THEN Accepted(Big(n \div 1000000, n % 1000000))
    ELSE IF suffix \in {<<"M">>, <<"m">>} THEN Accepted(Big(n, 0))
    ELSE IF suffix \in {<<"G">>, <<"g">>} THEN Accepted(Big(n * 1000, 0))
    ELSE Rejected

\* C4, as stated: "n" parses to n bytes, "nM"/"nm" to n * 10^6, "nG"/"ng" to
\* n * 10^9, and a string whose text after the integer is non-empty and not
\* one of M, m, G, g is rejected with exit status 1 and no benchmark run.
C4_TextAfterInteger ==
    Parsed =>
        \A b \in 1..Len(fn_in) :
            IntegerEndsAt(fn_in, b) =>
                SuffixRule(Decimal(fn_in, 1, b), SubSeq(fn_in, b + 1, Len(fn_in)))

\* the first white-space delimited word of s after position b is s[c+1 .. e]
\* (empty, with c = e = Len(s), when only white space follows)
WordAfter(s, b, c, e) ==
    /\ b <= c /\ c <= e /\ e <= Len(s)
    /\ \A i \in (b + 1)..c : s[i] = " "
    /\ \A i \in (c + 1)..e : s[i] # " "
    /\ e < Len(s) => s[e + 1] = " "
    /\ c = e => c = Len(s)

\* C4, amended: for a string that starts with the integer n, what decides is
\* the first white-space delimited word after the integer: none gives n
\* bytes, M or m gives n * 10^6, G or g gives n * 10^9, any other word is
\* rejected with exit status 1 and no benchmark run.  White space before
\* that word is skipped and whatever follows the word is ignored.
C4_WordAfterInteger ==
    Parsed =>
        \A b \in 1..Len(fn_in) :
            IntegerEndsAt(fn_in, b) =>
                \A c \in b..Len(fn_in), e \in b..Len(fn_in) :
                    WordAfter(fn_in, b, c, e) =>
                        SuffixRule(Decimal(fn_in, 1, b), SubSeq(fn_in, c + 1, e))

C4_Witness ==
    /\ Parsed
    /\ fn_in = <<"2", " ", "m">>
    /\ Accepted(Big(2, 0))

\* --------------------------------------------------------------- readbacks
\* C9, as stated: a readback equal element by element to the expected
\* sequence passes, a readback with an element that differs from its
\* expected value by more than the tolerance fails, and an empty one passes.
\* (An element e in units of 10^-3 is 1000 * e in units of 10^-6.)
C9_ReadbackEqualsExpected ==
    fn_out # <<>> =>
        LET data == fn_in.data
            draws == fn_in.draws
        IN /\ (\A i \in 1..Len(data) : 1000 * data[i] = draws[i]) => fn_out[1]
           /\ (\E i \in 1..Len(data) : Abs(1000 * data[i] - draws[i]) > Tolerance)
                 => ~fn_out[1]
           /\ data = <<>> => fn_out[1]

\* C9, amended: a readback whose elements, squared, equal the expected
\* sequence element by element passes, a readback with an element whose
\* square differs from its expected value by more than the tolerance fails,
\* and an empty readback passes.
C9_SquaresEqualExpected ==
    fn_out # <<>> =>
        LET data == fn_in.data
            draws == fn_in.draws
        IN /\ (\A i \in 1..Len(data) : data[i] * data[i] = draws[i]) => fn_out[1]
           /\ (\E i \in 1..Len(data) :
                   Abs(data[i] * data[i] - draws[i]) > Tolerance) => ~fn_out[1]
           /\ data = <<>> => fn_out[1]

C9_Witness ==
    /\ fn_out = <<FALSE>>
    /\ fn_in.data = <<500, 500>>
    /\ fn_in.draws = <<250000, 500000>>

====
